---- MODULE Spec2Model ----
(***************************************************************************)
(* BlueTunes (src/bluetunes.py): a Bluetooth media controller.             *)
(*                                                                         *)
(* A listener pushes every PropertiesChanged signal of the bus onto a      *)
(* FIFO queue (pipeline); handlePipeline, run once at start and then once  *)
(* per second, either resolves the media player and transport (when no     *)
(* player is bound) or drains the queue and drives the window (when one is *)
(* bound).  The window's buttons call back into the bound player.          *)
(*                                                                         *)
(* Strings of the program that the code slices or searches (object paths)  *)
(* are sequences of one-character strings, so that path[:-7] and           *)
(* "path in obj" are computed as Python computes them.  Python's None is   *)
(* the empty sequence for object references and paths.                     *)
(***************************************************************************)
EXTENDS Integers, Sequences, FiniteSets, TLC

(***************************************************************************)
(* Bounds of the model.                                                    *)
(***************************************************************************)
\* Notifications the listener pushes in one run.
MaxPush == 3
\* Notifications the listener pushes in one run in which the window issues
\* commands.
MaxCmdPush == 2
\* Commands the window issues in one run.
MaxCmds == 2
\* Objects of the bus when getInterface is called on its own.
MaxObjs == 3

(***************************************************************************)
(* Constants of the program.                                               *)
(***************************************************************************)
MEDIA_PLAYER_IFACE == "org.bluez.MediaPlayer1"
MEDIA_TRANSPORT_IFACE == "org.bluez.MediaTransport1"
MEDIA_CONTROL_IFACE == "org.bluez.MediaControl1"
MEDIA_DEVICE_IFACE == "org.bluez.Device1"
\* An interface of the bus the program has no branch for.
OTHER_IFACE == "org.bluez.Battery1"

None == <<>>

(***************************************************************************)
(* Object paths.  Every path starts with "/org/bluez/hci0/dev_", written   *)
(* as one element, followed by the device's letter and the rest of the     *)
(* path, one character per element.                                        *)
(***************************************************************************)
Root == <<"/org/bluez/hci0/dev_">>
PlayerPath(dev) == Root \o <<dev, "/", "p", "l", "a", "y", "e", "r", "0">>
TransportPath(dev) == Root \o <<dev, "/", "f", "d", "0">>

\* One object of GetManagedObjects(): its path and the interfaces it has.
PlayerObj(dev) == [path |-> PlayerPath(dev), ifaces |-> {MEDIA_PLAYER_IFACE}]
TransportObj(dev) == [path |-> TransportPath(dev), ifaces |-> {MEDIA_TRANSPORT_IFACE}]
DeviceObj(dev) ==
    [path |-> Root \o <<dev>>, ifaces |-> {MEDIA_DEVICE_IFACE, MEDIA_CONTROL_IFACE}]

\* The catalogs the bus goes through, each in the order the bus lists it.
Catalogs ==
    { <<>>,
      <<DeviceObj("A"), PlayerObj("A")>>,
      <<DeviceObj("A"), PlayerObj("A"), TransportObj("A")>>,
      <<TransportObj("B"), PlayerObj("A"), TransportObj("A")>> }

\* A second transport of the same device (BlueZ numbers them fd0, fd1, ...).
Transport1Obj(dev) ==
    [ path |-> Root \o <<dev, "/", "f", "d", "1">>,
      ifaces |-> {MEDIA_TRANSPORT_IFACE} ]

\* The objects getInterface is called on, on its own: every listing of up to
\* MaxObjs of them, no object twice (GetManagedObjects returns a dict).
ResolvePool ==
    { PlayerObj("A"), PlayerObj("B"), TransportObj("A"), TransportObj("B"),
      Transport1Obj("A"), DeviceObj("A") }

ResolveCatalogs ==
    { objs \in UNION {[1..n -> ResolvePool] : n \in 0..MaxObjs} :
        \A i, j \in DOMAIN objs : i # j => objs[i] # objs[j] }

\* The players bound when it is called, besides none.
ResolvePlayers == {PlayerPath("A"), PlayerPath("B"), PlayerPath("C")}

(***************************************************************************)
(* Python's string operations on paths.                                    *)
(***************************************************************************)
\* s[:-n]
DropLast(s, n) == IF Len(s) <= n THEN <<>> ELSE SubSeq(s, 1, Len(s) - n)

\* a in b  (substring test)
Contains(b, a) ==
    \E i \in 0..(Len(b) - Len(a)) : SubSeq(b, i + 1, i + Len(a)) = a

\* [x for x in s if Test(x)], order kept
RECURSIVE SelectPaths(_, _)
SelectPaths(objs, iface) ==
    IF objs = <<>> THEN <<>>
    ELSE IF iface \in Head(objs).ifaces
         THEN <<Head(objs).path>> \o SelectPaths(Tail(objs), iface)
         ELSE SelectPaths(Tail(objs), iface)

\* The first element of s that contains path, or None.
RECURSIVE FirstContaining(_, _)
FirstContaining(s, path) ==
    IF s = <<>> THEN None
    ELSE IF Contains(Head(s), path) THEN Head(s)
         ELSE FirstContaining(Tail(s), path)

(***************************************************************************)
(* getInterface(bus, iface): objs is what GetManagedObjects() returns, mp  *)
(* the global mediaPlayer at the time of the call.  The result is a path,  *)
(* or None (Python returns None both at "return None" and when it falls    *)
(* off the end after logging "Multiple objects found").                    *)
(***************************************************************************)
\* Mutant of getInterface: a single candidate is also put to the test of
\* the bound player's path.
getInterface_filtersSingle(objs, iface, mp) ==
    LET objects == SelectPaths(objs, iface)
    IN  IF Len(objects) = 0 THEN None
        ELSE IF mp # None THEN FirstContaining(objects, DropLast(mp, 7))
        ELSE IF Len(objects) = 1 THEN objects[1]
        ELSE None

\* Mutant of getInterface: of several candidates the first is returned when
\* a player is bound.
getInterface_firstOfMany(objs, iface, mp) ==
    LET objects == SelectPaths(objs, iface)
    IN  IF Len(objects) = 0 THEN None
        ELSE IF Len(objects) = 1 THEN objects[1]
        ELSE IF mp # None THEN objects[1]
        ELSE None

getInterface(objs, iface, mp) ==
    LET objects == SelectPaths(objs, iface)
    IN  IF Len(objects) = 0 THEN None
        ELSE IF Len(objects) = 1 THEN objects[1]
        ELSE IF mp # None THEN FirstContaining(objects, DropLast(mp, 7))
        ELSE None

(***************************************************************************)
(* The window (class BlueTunes).  bt holds the widgets' state:             *)
(*   playImg, pauseImg, trackLabel, loadingLabel, window: shown or hidden  *)
(*   markup: the markup of trackLabel, as the pieces Python concatenates   *)
(*   sensitive: whether prevBtn, playBtn and nextBtn take clicks           *)
(* A "world" w is what one run of handlePipeline reads and writes: the     *)
(* globals mediaPlayer and mediaTransport, bt, the calls made on bt so     *)
(* far in this tick (calls), and whether an exception has been raised.     *)
(***************************************************************************)
\* The window after __init__: show_all(), loading(), pauseImg.hide().
InitBt ==
    [ playImg |-> TRUE, pauseImg |-> FALSE, markup |-> <<>>,
      trackLabel |-> FALSE, loadingLabel |-> TRUE,
      sensitive |-> FALSE, window |-> TRUE ]

Called(w, cb, arg) == [w EXCEPT !.calls = Append(@, [cb |-> cb, arg |-> arg])]

\* GLib.markup_escape_text on the strings the model uses.
markup_escape_text(s) ==
    CASE s = "Q&A" -> "Q&amp;A"
      [] s = "<3" -> "&lt;3"
      [] OTHER -> s

\* A missing key leaves its variable None; GLib.markup_escape_text(None)
\* raises TypeError before set_markup is reached.
setTrack(w, props) ==
    IF {"Title", "Artist", "Album"} \subseteq DOMAIN props
    THEN LET text == << "<b>", markup_escape_text(props.Artist), "</b> ",
                        markup_escape_text(props.Title), " ",
                        markup_escape_text(props.Album) >>
         IN  Called([w EXCEPT !.bt.markup = text], "setTrack", text)
    ELSE [w EXCEPT !.raised = TRUE]

setPlayPause(w, playing) ==
    Called([w EXCEPT !.bt.playImg = ~playing, !.bt.pauseImg = playing],
           "setPlayPause", <<IF playing THEN "True" ELSE "False">>)

\* Mutant of ready: it also presents the window.
ready_shows(w) ==
    Called(Called([w EXCEPT !.bt.window = TRUE], "show", <<>>), "ready", <<>>)

ready(w) ==
    Called([w EXCEPT !.bt.sensitive = TRUE,
                     !.bt.loadingLabel = FALSE,
                     !.bt.trackLabel = TRUE], "ready", <<>>)

\* Gtk.Window.show / hide
show(w) == Called([w EXCEPT !.bt.window = TRUE], "show", <<>>)
hide(w) == Called([w EXCEPT !.bt.window = FALSE], "hide", <<>>)

\* Mutant of getPlayerAndTransport: with a player and no transport it
\* returns the player.
getPlayerAndTransport_keepsPlayer(objs, mp, mt) ==
    LET ppath == getInterface(objs, MEDIA_PLAYER_IFACE, mp)
        mp1 == IF mp = None THEN ppath ELSE mp
        tpath == getInterface(objs, MEDIA_TRANSPORT_IFACE, mp1)
        mt1 == IF mt = None THEN tpath ELSE mt
    IN  IF mp = None /\ ppath = None
        THEN [ret |-> <<None, None>>, mediaPlayer |-> mp, mediaTransport |-> mt]
        ELSE [ret |-> <<mp1, mt1>>, mediaPlayer |-> mp1, mediaTransport |-> mt1]

(***************************************************************************)
(* getPlayerAndTransport(): objs is the catalog, mp and mt the globals     *)
(* when it is called.  It assigns the globals as it goes (mediaPlayer,     *)
(* mediaTransport: their values when it returns) and returns a pair (ret). *)
(***************************************************************************)
getPlayerAndTransport(objs, mp, mt) ==
    LET ppath == getInterface(objs, MEDIA_PLAYER_IFACE, mp)
        mp1 == IF mp = None THEN ppath ELSE mp
        tpath == getInterface(objs, MEDIA_TRANSPORT_IFACE, mp1)
        mt1 == IF mt = None THEN tpath ELSE mt
    IN  IF mp = None /\ ppath = None
        THEN [ret |-> <<None, None>>, mediaPlayer |-> mp, mediaTransport |-> mt]
        ELSE IF mt = None /\ tpath = None
        THEN [ret |-> <<None, None>>, mediaPlayer |-> mp1, mediaTransport |-> mt]
        ELSE [ret |-> <<mp1, mt1>>, mediaPlayer |-> mp1, mediaTransport |-> mt1]

(***************************************************************************)
(* handlePipeline, first branch (no player bound): w after the tick, given *)
(* the catalog and props, the properties GetAll returns if a player is     *)
(* resolved.                                                               *)
(***************************************************************************)
\* Mutant of ApplySnapshot: ready() is called before the properties are
\* applied.
ApplySnapshot_readyFirst(w, props) ==
    LET w0 == ready(w)
        w1 == IF "Status" \in DOMAIN props
              THEN setPlayPause(w0, props.Status = "playing")
              ELSE w0
    IN  IF "Track" \in DOMAIN props THEN setTrack(w1, props.Track) ELSE w1

ApplySnapshot(w, props) ==
    LET w1 == IF "Status" \in DOMAIN props
              THEN setPlayPause(w, props.Status = "playing")
              ELSE w
        w2 == IF "Track" \in DOMAIN props THEN setTrack(w1, props.Track) ELSE w1
    IN  IF w2.raised THEN w2 ELSE ready(w2)

\* Mutant of UnboundTick: ready() is called whether or not a player was
\* resolved.
UnboundTick_alwaysReady(w, objs, props) ==
    LET r == getPlayerAndTransport(objs, w.mediaPlayer, w.mediaTransport)
        w1 == [w EXCEPT !.mediaPlayer = r.ret[1], !.mediaTransport = r.ret[2]]
    IN  IF w1.mediaPlayer # None THEN ApplySnapshot(w1, props) ELSE ready(w1)

\* Mutant of UnboundTick: the globals stay as getPlayerAndTransport left
\* them; the pair it returns is not assigned to them.
UnboundTick_keepsGlobals(w, objs, props) ==
    LET r == getPlayerAndTransport(objs, w.mediaPlayer, w.mediaTransport)
        w1 == [w EXCEPT !.mediaPlayer = r.mediaPlayer,
                        !.mediaTransport = r.mediaTransport]
    IN  IF w1.mediaPlayer # None THEN ApplySnapshot(w1, props) ELSE w1

UnboundTick(w, objs, props) ==
    LET r == getPlayerAndTransport(objs, w.mediaPlayer, w.mediaTransport)
        w1 == [w EXCEPT !.mediaPlayer = r.ret[1], !.mediaTransport = r.ret[2]]
    IN  IF w1.mediaPlayer # None THEN ApplySnapshot(w1, props) ELSE w1

(***************************************************************************)
(* handlePipeline, one turn of the while loop on the dequeued item.        *)
(***************************************************************************)
ApplyPlayer(w, props) ==
    LET w1 == IF "Track" \in DOMAIN props THEN setTrack(w, props.Track) ELSE w
    IN  IF w1.raised THEN w1
        ELSE IF "Status" \in DOMAIN props
        THEN setPlayPause(w1, props.Status = "playing")
        ELSE w1

\* Mutant of ApplyTransport: State "idle" is not handled.
ApplyTransport_idleIgnored(w, props) ==
    IF "State" \in DOMAIN props /\ props.State = "active"
    THEN setPlayPause(w, TRUE)
    ELSE w

\* Mutant of ApplyTransport: as for Player.Status, every State other than
\* "active" sets not playing.
ApplyTransport_otherIsIdle(w, props) ==
    IF "State" \in DOMAIN props
    THEN setPlayPause(w, props.State = "active")
    ELSE w

ApplyTransport(w, props) ==
    IF "State" \in DOMAIN props
    THEN LET w1 == IF props.State = "idle" THEN setPlayPause(w, FALSE) ELSE w
         IN  IF props.State = "active" THEN setPlayPause(w1, TRUE) ELSE w1
    ELSE w

\* Mutant of ApplyDevice: on Connected=false mediaTransport is not cleared.
ApplyDevice_keepsTransport(w, props) ==
    IF "Connected" \in DOMAIN props
    THEN IF props.Connected
         THEN show(w)
         ELSE hide([w EXCEPT !.mediaPlayer = None])
    ELSE w

\* Mutant of ApplyDevice: the bindings are cleared before the value of
\* Connected is looked at.
ApplyDevice_clearsOnAny(w, props) ==
    IF "Connected" \in DOMAIN props
    THEN LET w1 == [w EXCEPT !.mediaPlayer = None, !.mediaTransport = None]
         IN  IF props.Connected THEN show(w1) ELSE hide(w1)
    ELSE w

ApplyDevice(w, props) ==
    IF "Connected" \in DOMAIN props
    THEN IF props.Connected
         THEN show(w)
         ELSE hide([w EXCEPT !.mediaPlayer = None, !.mediaTransport = None])
    ELSE w

\* Mutant of ApplyItem: a MediaControl1 notification is handled as a
\* Device1 notification.
ApplyItem_controlAsDevice(w, item) ==
    IF item.iface = MEDIA_PLAYER_IFACE THEN ApplyPlayer(w, item.changed)
    ELSE IF item.iface = MEDIA_TRANSPORT_IFACE THEN ApplyTransport(w, item.changed)
    ELSE IF item.iface = MEDIA_DEVICE_IFACE THEN ApplyDevice(w, item.changed)
    ELSE IF item.iface = MEDIA_CONTROL_IFACE THEN ApplyDevice(w, item.changed)
    ELSE w

ApplyItem(w, item) ==
    IF item.iface = MEDIA_PLAYER_IFACE THEN ApplyPlayer(w, item.changed)
    ELSE IF item.iface = MEDIA_TRANSPORT_IFACE THEN ApplyTransport(w, item.changed)
    ELSE IF item.iface = MEDIA_DEVICE_IFACE THEN ApplyDevice(w, item.changed)
    ELSE IF item.iface = MEDIA_CONTROL_IFACE THEN w
    ELSE w

(***************************************************************************)
(* What the bus delivers.                                                  *)
(***************************************************************************)
FullTrack == [Title |-> "A", Artist |-> "B", Album |-> "C"]
EscTrack == [Title |-> "Q&A", Artist |-> "B", Album |-> "<3"]
\* A track for which the remote player reports no artist and no album.
PartTrack == [Title |-> "A"]

\* PropertiesChanged(iface, changed, invalidated): iface and changed.
Signal(iface, changed) == [iface |-> iface, changed |-> changed]

\* The notifications that drive the window or the binding.
Notifications ==
    { Signal(MEDIA_PLAYER_IFACE, [Status |-> "playing"]),
      Signal(MEDIA_PLAYER_IFACE, [Track |-> FullTrack, Status |-> "paused"]),
      Signal(MEDIA_PLAYER_IFACE, [Track |-> PartTrack, Status |-> "playing"]),
      Signal(MEDIA_TRANSPORT_IFACE, [State |-> "idle"]),
      Signal(MEDIA_TRANSPORT_IFACE, [State |-> "active"]),
      Signal(MEDIA_DEVICE_IFACE, [Connected |-> TRUE]),
      Signal(MEDIA_DEVICE_IFACE, [Connected |-> FALSE]) }

\* The notifications the loop has no branch or no effect for, with three
\* that have one.
QuietNotifications ==
    { Signal(MEDIA_TRANSPORT_IFACE, [State |-> "pending"]),
      Signal(MEDIA_TRANSPORT_IFACE, [Volume |-> 64]),
      Signal(MEDIA_CONTROL_IFACE, [Connected |-> TRUE]),
      Signal(OTHER_IFACE, [Percentage |-> 50]),
      Signal(MEDIA_PLAYER_IFACE, [Status |-> "playing"]),
      Signal(MEDIA_PLAYER_IFACE, [Status |-> "stopped"]),
      Signal(MEDIA_DEVICE_IFACE, [Connected |-> FALSE]) }

\* What GetAll(MEDIA_PLAYER_IFACE) returns for a player just resolved.
Snapshots ==
    { [Name |-> "phone"],
      [Name |-> "phone", Status |-> "playing", Track |-> FullTrack],
      [Name |-> "phone", Status |-> "paused", Track |-> EscTrack],
      [Name |-> "phone", Status |-> "playing", Track |-> PartTrack] }

(***************************************************************************)
(* State.                                                                  *)
(*   mediaPlayer, mediaTransport  the globals: a path, or None             *)
(*   pipeline     the queue; each item is a notification with id, the      *)
(*                number of its arrival at the listener                    *)
(*   bt           the window                                               *)
(*   catalog      the objects of the bus, volume the transport's Volume    *)
(*   pc           "idle": no tick is running and the last one returned;    *)
(*                "drain": handlePipeline is in its while loop;            *)
(*                "get": it is in the loop, about to call pipeline.get();  *)
(*                "raised": the last tick ended by an exception            *)
(*   fault        the last exception a command raised, lastCall the last   *)
(*                method a command invoked on the bus                      *)
(* History:                                                                *)
(*   pushCount, cmdCount   how many pushes and commands so far             *)
(*   consumed     the ids dequeued so far, in order                        *)
(*   tickKind     what the current or last tick was: "noPlayer",           *)
(*                "noTransport", "bind", "drain" ("init" before the first) *)
(*   tickStart    the globals, the window and the id at the head of the    *)
(*                queue when that tick began                               *)
(*   tickCalls    the calls it made on bt, tickTaken the items it dequeued *)
(*   snapshot     what GetAll returned on the last tick that bound a       *)
(*                player                                                   *)
(*   sinceHide    since the last Connected=false was processed (seen):     *)
(*                Connected=true notifications dequeued, show calls made   *)
(*   resolved     the last call of getInterface made on its own: the       *)
(*                interface asked for and the path returned                *)
(***************************************************************************)
VARIABLES mediaPlayer, mediaTransport, pipeline, bt, catalog, volume, pc,
          fault, lastCall, pushCount, cmdCount, consumed,
          tickKind, tickStart, tickCalls, tickTaken, snapshot, sinceHide,
          resolved

vars == << mediaPlayer, mediaTransport, pipeline, bt, catalog, volume, pc,
           fault, lastCall, pushCount, cmdCount, consumed,
           tickKind, tickStart, tickCalls, tickTaken, snapshot, sinceHide,
           resolved >>

cmdVars == << fault, lastCall, cmdCount, volume >>
tickVars == << tickKind, tickStart, tickCalls, tickTaken, snapshot >>

\* queue.SimpleQueue
put(q, item) == Append(q, item)
\* Mutant of empty: it never answers True.
empty_never(q) == FALSE
\* Mutant of empty: true while one item is left.
empty_early(q) == Len(q) <= 1
empty(q) == q = <<>>
\* Mutant of get: the newest item is returned.
get_newest(q) == [item |-> q[Len(q)], queue |-> SubSeq(q, 1, Len(q) - 1)]
\* get() on a non-empty queue: the item it returns and the queue it leaves.
get(q) == [item |-> Head(q), queue |-> Tail(q)]

HeadId == IF pipeline = <<>> THEN pushCount + 1 ELSE Head(pipeline).id

World ==
    [ mediaPlayer |-> mediaPlayer, mediaTransport |-> mediaTransport,
      bt |-> bt, calls |-> <<>>, raised |-> FALSE ]

StartOfTick ==
    [ mediaPlayer |-> mediaPlayer, mediaTransport |-> mediaTransport,
      bt |-> bt, head |-> HeadId ]

IsDisconnect(item) ==
    /\ item.iface = MEDIA_DEVICE_IFACE
    /\ "Connected" \in DOMAIN item.changed
    /\ ~item.changed.Connected

IsConnect(item) ==
    /\ item.iface = MEDIA_DEVICE_IFACE
    /\ "Connected" \in DOMAIN item.changed
    /\ item.changed.Connected

Shows(calls) == Cardinality({i \in DOMAIN calls : calls[i].cb = "show"})

\* No call of getInterface has been made on its own.
NotAsked == [iface |-> "none", ret |-> None]

InitWith(catalogs, volumes) ==
    /\ mediaPlayer = None
    /\ mediaTransport = None
    /\ resolved = NotAsked
    /\ pipeline = <<>>
    /\ bt = InitBt
    /\ catalog \in catalogs
    /\ volume \in volumes
    /\ pc = "idle"
    /\ fault = "none"
    /\ lastCall = "none"
    /\ pushCount = 0
    /\ cmdCount = 0
    /\ consumed = <<>>
    /\ tickKind = "init"
    /\ tickStart = StartOfTick
    /\ tickCalls = <<>>
    /\ tickTaken = <<>>
    /\ snapshot = [Name |-> "none"]
    /\ sinceHide = [seen |-> FALSE, connTrue |-> 0, shows |-> 0]

(***************************************************************************)
(* BlueListener._propsChangedCb: one signal arrives and is queued.         *)
(***************************************************************************)
_propsChangedCb(signals, limit) ==
    /\ pushCount < limit
    /\ \E n \in signals :
          pipeline' = put(pipeline,
                          [id |-> pushCount + 1, iface |-> n.iface,
                           changed |-> n.changed])
    /\ pushCount' = pushCount + 1
    /\ UNCHANGED << mediaPlayer, mediaTransport, bt, catalog, pc,
                    consumed, sinceHide,
                    resolved >>
    /\ UNCHANGED cmdVars
    /\ UNCHANGED tickVars

(***************************************************************************)
(* The bus: objects appear and disappear.                                  *)
(***************************************************************************)
BusChange(catalogs) ==
    /\ catalog' \in catalogs \ {catalog}
    /\ UNCHANGED << mediaPlayer, mediaTransport, pipeline, bt, pc, pushCount,
                    consumed, sinceHide,
                    resolved >>
    /\ UNCHANGED cmdVars
    /\ UNCHANGED tickVars

(***************************************************************************)
(* handlePipeline with no player bound (lines 115-130): one step.          *)
(***************************************************************************)
TickUnbound(snapshots) ==
    /\ pc \in {"idle", "raised"}
    /\ mediaPlayer = None
    /\ \E props \in snapshots :
          LET w == UnboundTick(World, catalog, props)
              player == getInterface(catalog, MEDIA_PLAYER_IFACE, None)
              transport == getInterface(catalog, MEDIA_TRANSPORT_IFACE, player)
          IN  /\ mediaPlayer' = w.mediaPlayer
              /\ mediaTransport' = w.mediaTransport
              /\ bt' = w.bt
              /\ tickCalls' = w.calls
              /\ pc' = IF w.raised THEN "raised" ELSE "idle"
              /\ tickKind' = IF player = None THEN "noPlayer"
                             ELSE IF transport = None THEN "noTransport"
                             ELSE "bind"
              /\ snapshot' = IF w.mediaPlayer # None THEN props ELSE snapshot
              /\ sinceHide' = IF sinceHide.seen
                              THEN [sinceHide EXCEPT !.shows = @ + Shows(w.calls)]
                              ELSE sinceHide
    /\ tickStart' = StartOfTick
    /\ tickTaken' = <<>>
    /\ UNCHANGED << pipeline, catalog, pushCount, consumed,
                    resolved >>
    /\ UNCHANGED cmdVars

(***************************************************************************)
(* handlePipeline with a player bound (lines 132-185).  The listener runs  *)
(* on its own thread, so the loop is taken one turn at a time: TickBound   *)
(* enters it, DrainStep is a turn that finds the queue non-empty and       *)
(* handles the item it dequeues, DrainEnd the test that finds it empty.    *)
(***************************************************************************)
TickBound ==
    /\ pc \in {"idle", "raised"}
    /\ mediaPlayer # None
    /\ pc' = "drain"
    /\ tickKind' = "drain"
    /\ tickStart' = StartOfTick
    /\ tickCalls' = <<>>
    /\ tickTaken' = <<>>
    /\ UNCHANGED << mediaPlayer, mediaTransport, pipeline, bt, catalog,
                    pushCount, consumed, snapshot, sinceHide,
                    resolved >>
    /\ UNCHANGED cmdVars

\* item = pipeline.get() on a queue that holds an item, and the branch taken
\* on it.
Dequeue ==
    /\ LET item == get(pipeline).item
           w == ApplyItem([World EXCEPT !.calls = tickCalls], item)
           made == SubSeq(w.calls, Len(tickCalls) + 1, Len(w.calls))
       IN  /\ pipeline' = get(pipeline).queue
           /\ mediaPlayer' = w.mediaPlayer
           /\ mediaTransport' = w.mediaTransport
           /\ bt' = w.bt
           /\ tickCalls' = w.calls
           /\ tickTaken' = Append(tickTaken, item)
           /\ consumed' = Append(consumed, item.id)
           /\ pc' = IF w.raised THEN "raised" ELSE "drain"
           /\ sinceHide' =
                 IF IsDisconnect(item)
                 THEN [seen |-> TRUE, connTrue |-> 0, shows |-> 0]
                 ELSE IF sinceHide.seen
                 THEN [sinceHide EXCEPT
                          !.connTrue = @ + (IF IsConnect(item) THEN 1 ELSE 0),
                          !.shows = @ + Shows(made)]
                 ELSE sinceHide
    /\ UNCHANGED << catalog, pushCount, tickKind, tickStart, snapshot,
                    resolved >>
    /\ UNCHANGED cmdVars

DrainStep ==
    /\ pc = "drain"
    /\ ~empty(pipeline)
    /\ Dequeue

\* The same turn as the two calls it makes on the queue, between which the
\* listener's thread may run: "while not pipeline.empty()" found an item
\* (pc "get"), then "pipeline.get()", which waits as long as the queue is
\* empty.
DrainTest ==
    /\ pc = "drain"
    /\ ~empty(pipeline)
    /\ pc' = "get"
    /\ UNCHANGED << mediaPlayer, mediaTransport, pipeline, bt, catalog,
                    pushCount, consumed, sinceHide, resolved >>
    /\ UNCHANGED cmdVars
    /\ UNCHANGED tickVars

DrainGet ==
    /\ pc = "get"
    /\ pipeline # <<>>
    /\ Dequeue

DrainEnd ==
    /\ pc = "drain"
    /\ empty(pipeline)
    /\ pc' = "idle"
    /\ UNCHANGED << mediaPlayer, mediaTransport, pipeline, bt, catalog,
                    pushCount, consumed, sinceHide,
                    resolved >>
    /\ UNCHANGED cmdVars
    /\ UNCHANGED tickVars

(***************************************************************************)
(* The commands of the window.  They run on the main loop, so never inside *)
(* a tick.  A method called on None raises AttributeError; a method called *)
(* on a proxy whose object has left the bus raises DBusException.  In both *)
(* cases nothing else changes.                                             *)
(***************************************************************************)
OnBus(path) == \E i \in DOMAIN catalog : catalog[i].path = path

\* prevBtn, playBtn and nextBtn take a click when shown and sensitive.
Clickable == bt.window /\ bt.sensitive

\* ref.<method>(...): the exception it raises, or "none".
Raises(ref) ==
    IF ref = None THEN "AttributeError"
    ELSE IF ~OnBus(ref) THEN "DBusException"
    ELSE "none"

Command(ref, calls) ==
    /\ pc \in {"idle", "raised"}
    /\ cmdCount < MaxCmds
    /\ cmdCount' = cmdCount + 1
    /\ IF Raises(ref) # "none"
       THEN fault' = Raises(ref) /\ lastCall' = lastCall
       ELSE fault' = fault /\ lastCall' \in calls
    /\ UNCHANGED << mediaPlayer, mediaTransport, pipeline, bt, catalog, pc,
                    pushCount, consumed, sinceHide,
                    resolved >>
    /\ UNCHANGED tickVars

\* Get("Status") answers what the remote player says; then Pause or Play.
play == Clickable /\ Command(mediaPlayer, {"Pause", "Play"}) /\ volume' = volume

stop == Command(mediaPlayer, {"Stop"}) /\ volume' = volume

next == Clickable /\ Command(mediaPlayer, {"Next"}) /\ volume' = volume

prev == Clickable /\ Command(mediaPlayer, {"Previous"}) /\ volume' = volume

\* Mutant of volUp: 4 is added whenever the volume is below 127.
volUp_overshoots ==
    /\ Command(mediaTransport, {"Set"})
    /\ volume' = IF Raises(mediaTransport) # "none" THEN volume
                 ELSE IF volume < 127 THEN volume + 4 ELSE 127

volUp ==
    /\ Command(mediaTransport, {"Set"})
    /\ volume' = IF Raises(mediaTransport) # "none" THEN volume
                 ELSE IF volume < 124 THEN volume + 4 ELSE 127

volDown ==
    /\ Command(mediaTransport, {"Set"})
    /\ volume' = IF Raises(mediaTransport) # "none" THEN volume
                 ELSE IF volume > 4 THEN volume - 4 ELSE 0

(***************************************************************************)
(* The reconciler and the listener, on every kind of notification.         *)
(***************************************************************************)
Init == InitWith(Catalogs, {125})

Next ==
    \/ _propsChangedCb(Notifications, MaxPush)
    \/ BusChange(Catalogs)
    \/ TickUnbound(Snapshots)
    \/ TickBound
    \/ DrainStep
    \/ DrainEnd

Spec == Init /\ [][Next]_vars

(***************************************************************************)
(* The reconciler, the listener and the window's commands, on the          *)
(* notifications that change the binding or the visibility of the window.  *)
(***************************************************************************)
CmdNotifications ==
    { Signal(MEDIA_PLAYER_IFACE, [Status |-> "playing"]),
      Signal(MEDIA_DEVICE_IFACE, [Connected |-> TRUE]),
      Signal(MEDIA_DEVICE_IFACE, [Connected |-> FALSE]) }

CmdCatalogs ==
    { <<>>,
      <<DeviceObj("A"), PlayerObj("A")>>,
      <<DeviceObj("A"), PlayerObj("A"), TransportObj("A")>> }

CmdSnapshots ==
    { [Name |-> "phone"],
      [Name |-> "phone", Status |-> "playing", Track |-> FullTrack] }

InitCmd == InitWith(CmdCatalogs, {2, 125})

NextCmd ==
    \/ _propsChangedCb(CmdNotifications, MaxCmdPush)
    \/ BusChange(CmdCatalogs)
    \/ TickUnbound(CmdSnapshots)
    \/ TickBound
    \/ DrainStep
    \/ DrainEnd
    \/ play
    \/ stop
    \/ next
    \/ prev
    \/ volUp
    \/ volDown

SpecCmd == InitCmd /\ [][NextCmd]_vars

\* The same, with the ticks that GLib.timeout_add(1000, handlePipeline)
\* keeps scheduling: a tick that can start does, and one that has started
\* goes on.  Nothing is assumed of the bus, the listener or the user.
SpecStale ==
    /\ InitCmd
    /\ [][NextCmd]_vars
    /\ WF_vars(TickUnbound(CmdSnapshots))
    /\ WF_vars(TickBound)
    /\ WF_vars(DrainStep)
    /\ WF_vars(DrainEnd)

(***************************************************************************)
(* The reconciler and the listener as two threads: the turn of the loop is *)
(* DrainTest then DrainGet.  The reconciler's thread is scheduled: a loop   *)
(* that can take its next step does.  Nothing is assumed of the listener.  *)
(***************************************************************************)
InitDrain == InitWith(CmdCatalogs, {125})

NextDrain ==
    \/ _propsChangedCb(Notifications, MaxCmdPush)
    \/ BusChange(CmdCatalogs)
    \/ TickUnbound(CmdSnapshots)
    \/ TickBound
    \/ DrainTest
    \/ DrainGet
    \/ DrainEnd

SpecDrain ==
    /\ InitDrain
    /\ [][NextDrain]_vars
    /\ WF_vars(DrainTest)
    /\ WF_vars(DrainGet)
    /\ WF_vars(DrainEnd)

(***************************************************************************)
(* The reconciler and the listener, on the notifications of                *)
(* QuietNotifications.                                                     *)
(***************************************************************************)
InitQuiet == InitWith(CmdCatalogs, {125})

NextQuiet ==
    \/ _propsChangedCb(QuietNotifications, MaxPush)
    \/ BusChange(CmdCatalogs)
    \/ TickUnbound(CmdSnapshots)
    \/ TickBound
    \/ DrainStep
    \/ DrainEnd

SpecQuiet == InitQuiet /\ [][NextQuiet]_vars

(***************************************************************************)
(* The volume commands, on every volume the transport can report (the      *)
(* Volume property of MediaTransport1 is 0..127), once a player and a      *)
(* transport are bound.                                                    *)
(***************************************************************************)
VolCatalogs == { <<DeviceObj("A"), PlayerObj("A"), TransportObj("A")>> }

VolSnapshots == { [Name |-> "phone"] }

InitVol == InitWith(VolCatalogs, 0..127)

NextVol ==
    \/ TickUnbound(VolSnapshots)
    \/ volUp
    \/ volDown

SpecVol == InitVol /\ [][NextVol]_vars

(***************************************************************************)
(* getInterface on its own: the bus lists any of ResolveCatalogs, a player *)
(* is bound or none is, and the function is called for one of the two      *)
(* interfaces the program asks for.                                        *)
(***************************************************************************)
InitResolve ==
    /\ mediaPlayer \in {None} \cup ResolvePlayers
    /\ mediaTransport = None
    /\ resolved = NotAsked
    /\ pipeline = <<>>
    /\ bt = InitBt
    /\ catalog \in ResolveCatalogs
    /\ volume = 125
    /\ pc = "idle"
    /\ fault = "none"
    /\ lastCall = "none"
    /\ pushCount = 0
    /\ cmdCount = 0
    /\ consumed = <<>>
    /\ tickKind = "init"
    /\ tickStart = StartOfTick
    /\ tickCalls = <<>>
    /\ tickTaken = <<>>
    /\ snapshot = [Name |-> "none"]
    /\ sinceHide = [seen |-> FALSE, connTrue |-> 0, shows |-> 0]

Resolve(ifaces) ==
    /\ \E iface \in ifaces :
          resolved' = [ iface |-> iface,
                        ret |-> getInterface(catalog, iface, mediaPlayer) ]
    /\ UNCHANGED << mediaPlayer, mediaTransport, pipeline, bt, catalog, pc,
                    pushCount, consumed, sinceHide >>
    /\ UNCHANGED cmdVars
    /\ UNCHANGED tickVars

NextResolve == Resolve({MEDIA_PLAYER_IFACE, MEDIA_TRANSPORT_IFACE})

SpecResolve == InitResolve /\ [][NextResolve]_vars

(***************************************************************************)
(* Properties.                                                             *)
(***************************************************************************)
\* The last tick has ended: by returning, or by an exception.
TickOver == pc \in {"idle", "raised"}

\* The queue holds the notifications numbered h, h+1, ..., up to the last
\* one pushed, in that order.
QueueFrom(h) ==
    /\ Len(pipeline) = pushCount + 1 - h
    /\ \A i \in DOMAIN pipeline : pipeline[i].id = h + i - 1

HasCall(cb) == \E i \in DOMAIN tickCalls : tickCalls[i].cb = cb

\* C1: when a bound-mode tick has processed a Device notification with
\* Connected=false, then once that tick is over both mediaPlayer and
\* mediaTransport are None and hide has been called, whatever the window
\* and the bindings were when the tick began and whatever else it dequeued.
C1_DisconnectUnbinds ==
    ( /\ TickOver
      /\ tickKind = "drain"
      /\ \E i \in DOMAIN tickTaken : IsDisconnect(tickTaken[i]) )
    => ( /\ mediaPlayer = None
         /\ mediaTransport = None
         /\ HasCall("hide") )

\* A drain that met Connected=false first, then something that drives the
\* window, and had begun with the window ready.
C1_Witness ==
    /\ pc = "idle"
    /\ tickKind = "drain"
    /\ Len(tickTaken) >= 2
    /\ IsDisconnect(tickTaken[1])
    /\ IsConnect(tickTaken[2])
    /\ tickStart.bt.sensitive
    /\ tickStart.bt.pauseImg
    /\ mediaPlayer = None

\* C2: a tick without a player bound whose resolution fails (no player, or
\* a player and no transport) dequeues nothing, calls nothing on the window,
\* leaves the window as it was and leaves both globals None; the queue still
\* holds, in arrival order, everything pushed since the tick's start and
\* what it held then.  The tick that binds takes nothing from the queue
\* either.
C2_FailedResolutionKeepsAll ==
    /\ tickKind \in {"noPlayer", "noTransport"} =>
          /\ mediaPlayer = None
          /\ mediaTransport = None
          /\ bt = tickStart.bt
          /\ tickCalls = <<>>
          /\ tickTaken = <<>>
          /\ pc = "idle"
          /\ QueueFrom(tickStart.head)
    /\ tickKind = "bind" => (tickTaken = <<>> /\ QueueFrom(tickStart.head))
    /\ consumed = <<>> => QueueFrom(1)

\* Two notifications wait while a resolution has just failed.
C2_Witness ==
    /\ tickKind = "noPlayer"
    /\ Len(pipeline) >= 2
    /\ consumed = <<>>

OneTick(w, item) ==
    LET w0 == [w EXCEPT !.raised = FALSE]
    IN  IF w0.mediaPlayer # None
        THEN {ApplyItem(w0, item)}
        ELSE {UnboundTick(w0, c, p) : c \in Catalogs, p \in Snapshots}

RECURSIVE Stepwise(_, _)
Stepwise(ws, items) ==
    IF items = <<>> THEN ws
    ELSE Stepwise(UNION {OneTick(w, Head(items)) : w \in ws}, Tail(items))

\* items in the order of arrival at the listener
ByArrival(items) ==
    [k \in 1..Len(items) |->
        CHOOSE x \in {items[i] : i \in DOMAIN items} :
            Cardinality({j \in DOMAIN items : items[j].id < x.id}) = k - 1]

Outcome(w) ==
    [ mediaPlayer |-> w.mediaPlayer, mediaTransport |-> w.mediaTransport,
      bt |-> w.bt, calls |-> w.calls ]

\* What the last tick left, and what it began with.
TickOutcome ==
    [ mediaPlayer |-> mediaPlayer, mediaTransport |-> mediaTransport,
      bt |-> bt, calls |-> tickCalls ]

TickOrigin ==
    [ mediaPlayer |-> tickStart.mediaPlayer,
      mediaTransport |-> tickStart.mediaTransport,
      bt |-> tickStart.bt, calls |-> <<>>, raised |-> FALSE ]

DrainIsStepwise ==
    TickOutcome \in
        {Outcome(w) : w \in Stepwise({TickOrigin}, ByArrival(tickTaken))}

\* C3 as stated: a tick that drained N notifications leaves the bindings
\* and the window, and has made the calls, that N ticks leave and make
\* which each find one of them, in arrival order; for every sequence.
C3_DrainIsStepwiseAlways ==
    (TickOver /\ tickKind = "drain") => DrainIsStepwise

\* What does hold of the code: the same, for every sequence in which no
\* notification follows a Device Connected=false.
DrainIsStepwiseUpToDisconnect ==
    ( /\ TickOver
      /\ tickKind = "drain"
      /\ \A i \in 1..(Len(tickTaken) - 1) : ~IsDisconnect(tickTaken[i]) )
    => DrainIsStepwise

\* A drain of three notifications, the last of them Connected=false.
DrainUpToDisconnect ==
    /\ pc = "idle"
    /\ tickKind = "drain"
    /\ Len(tickTaken) = 3
    /\ IsDisconnect(tickTaken[3])
    /\ ~IsDisconnect(tickTaken[1])
    /\ ~IsDisconnect(tickTaken[2])
    /\ tickTaken[1].iface # tickTaken[2].iface

\* C5 as stated: no command run while a reference is None calls a method on
\* it (which Python answers with AttributeError).
C5_CommandsFailSoftly == fault # "AttributeError"

(***************************************************************************)
(* The play/pause indicator, for C6.                                       *)
(***************************************************************************)
\* The notification carries Player.Status, or Transport.State idle/active.
Writes(item) ==
    \/ item.iface = MEDIA_PLAYER_IFACE /\ "Status" \in DOMAIN item.changed
    \/ /\ item.iface = MEDIA_TRANSPORT_IFACE
       /\ "State" \in DOMAIN item.changed
       /\ item.changed.State \in {"idle", "active"}

Written(item) ==
    IF item.iface = MEDIA_PLAYER_IFACE
    THEN item.changed.Status = "playing"
    ELSE item.changed.State = "active"

RECURSIVE LastWritten(_, _)
LastWritten(items, before) ==
    IF items = <<>> THEN before
    ELSE IF Writes(items[Len(items)]) THEN Written(items[Len(items)])
    ELSE LastWritten(SubSeq(items, 1, Len(items) - 1), before)

TrackText(track) ==
    IF track = FullTrack THEN <<"<b>", "B", "</b> ", "A", " ", "C">>
    ELSE <<"<b>", "B", "</b> ", "Q&amp;A", " ", "&lt;3">>

SnapshotCalls(props) ==
    (IF "Status" \in DOMAIN props
     THEN << [cb |-> "setPlayPause",
              arg |-> <<IF props.Status = "playing" THEN "True" ELSE "False">>] >>
     ELSE <<>>)
    \o (IF "Track" \in DOMAIN props
        THEN << [cb |-> "setTrack", arg |-> TrackText(props.Track)] >>
        ELSE <<>>)
    \o << [cb |-> "ready", arg |-> <<>>] >>

C8_OneShowPerConnect ==
    (sinceHide.seen /\ sinceHide.connTrue = 1) => sinceHide.shows = 1

\* The Connected=true was dequeued by a tick that began with a player bound
\* again and did not itself process a Connected=false.
C8_Witness ==
    /\ sinceHide.seen
    /\ sinceHide.connTrue = 1
    /\ sinceHide.shows = 1
    /\ pc = "idle"
    /\ tickKind = "drain"
    /\ tickStart.mediaPlayer # None
    /\ mediaPlayer # None
    /\ \E i \in DOMAIN tickTaken : IsConnect(tickTaken[i])
    /\ \A i \in DOMAIN tickTaken : ~IsDisconnect(tickTaken[i])
    /\ bt.window

\* C9: a step changes mediaPlayer or mediaTransport only if it is a tick
\* that began with neither bound and resolved both, or a turn of the drain
\* that dequeues a Device Connected=false.
C9_OnlyTwoTransitions ==
    [][ (mediaPlayer' # mediaPlayer \/ mediaTransport' # mediaTransport) =>
          \/ /\ TickOver
             /\ mediaPlayer = None
             /\ mediaTransport = None
             /\ mediaPlayer' # None
             /\ mediaTransport' # None
             /\ tickKind' = "bind"
             /\ pipeline' = pipeline
          \/ /\ pc = "drain"
             /\ pipeline # <<>>
             /\ IsDisconnect(Head(pipeline))
             /\ mediaPlayer' = None
             /\ mediaTransport' = None ]_vars

\* Bound again after a disconnect, with a command issued.
C9_Witness ==
    /\ sinceHide.seen
    /\ mediaPlayer # None
    /\ cmdCount > 0
    /\ fault = "none"
    /\ pipeline # <<>>

Candidates ==
    { catalog[i].path : i \in {j \in DOMAIN catalog :
                                  resolved.iface \in catalog[j].ifaces} }

\* Those of them that contain the bound player's path less its last seven
\* characters ("player0").
Matching == {c \in Candidates : Contains(c, DropLast(mediaPlayer, 7))}

Asked == resolved.iface # "none"

\* C11: getInterface called when exactly one object of the bus has the
\* interface returns that object's path, whether or not a player is bound
\* and whether or not its path matches; when no object has it, it returns
\* None.
C11_SingleCandidateReturned ==
    Asked =>
        /\ Cardinality(Candidates) = 1 => Candidates = {resolved.ret}
        /\ Candidates = {} => resolved.ret = None

\* One transport, of device A, while the player of device B is bound.
C11_Witness ==
    /\ resolved.iface = MEDIA_TRANSPORT_IFACE
    /\ mediaPlayer = PlayerPath("B")
    /\ Candidates = {TransportPath("A")}
    /\ Matching = {}
    /\ resolved.ret = TransportPath("A")

\* C12: getInterface called when two objects have the interface and a
\* player is bound whose path, less its last seven characters, is contained
\* in the path of exactly one of them returns that one, in whichever order
\* the bus lists the two.
C12_PrefixPicksTheMatch ==
    ( /\ Asked
      /\ Cardinality(Candidates) = 2
      /\ mediaPlayer # None
      /\ Cardinality(Matching) = 1 )
    => Matching = {resolved.ret}

\* The candidate that matches is listed after the one that does not.
C12_Witness ==
    /\ resolved.iface = MEDIA_TRANSPORT_IFACE
    /\ mediaPlayer = PlayerPath("A")
    /\ Len(catalog) = 3
    /\ catalog[1] = TransportObj("B")
    /\ catalog[3] = TransportObj("A")
    /\ resolved.ret = TransportPath("A")

\* C13 as stated: getInterface called when two objects have the interface
\* returns None when no player is bound, when a player is bound and neither
\* path contains its prefix, and when a player is bound and both do.
C13_TwoCandidatesAmbiguous ==
    ( /\ Asked
      /\ Cardinality(Candidates) = 2
      /\ \/ mediaPlayer = None
         \/ Matching = {}
         \/ Matching = Candidates )
    => resolved.ret = None

(***************************************************************************)
(* The volume, for C14.                                                    *)
(***************************************************************************)
Min(a, b) == IF a <= b THEN a ELSE b
Max(a, b) == IF a >= b THEN a ELSE b

\* The transport answers: the command reads and writes Volume.
Answers == Raises(mediaTransport) = "none"

\* C14: the volume is always in 0..127; volUp that reaches the transport
\* writes min(v + 4, 127) and volDown writes max(v - 4, 0), v being the
\* volume it read; so volUp at 125 and at 127 writes 127, and volDown at 2
\* and at 0 writes 0.
C14_VolumeSaturates ==
    /\ [](volume \in 0..127)
    /\ [][ (volUp /\ Answers) =>
              /\ volume' = Min(volume + 4, 127)
              /\ volume \in {125, 127} => volume' = 127 ]_vars
    /\ [][ (volDown /\ Answers) =>
              /\ volume' = Max(volume - 4, 0)
              /\ volume \in {0, 2} => volume' = 0 ]_vars

\* Two volume commands have written, and the volume stands at the top.
C14_Witness ==
    /\ cmdCount = 2
    /\ fault = "none"
    /\ lastCall = "Set"
    /\ mediaTransport # None
    /\ volume = 127

(***************************************************************************)
(* A bound player that has left the bus, for C15.                          *)
(***************************************************************************)
\* The player bound is no object of the bus: every call on it fails.
Stale == mediaPlayer # None /\ ~OnBus(mediaPlayer)

\* C15 as stated: when the bound player has left the bus, the binding is
\* cleared in the end (or the player is back on the bus), without any
\* Device Connected=false being needed for it.
C15_StaleBindingCleared == Stale ~> (mediaPlayer = None \/ ~Stale)

(***************************************************************************)
(* Notifications without effect, for C16 and C20.                          *)
(***************************************************************************)
\* This step is a turn of the loop: it dequeues the head of the queue.
Dequeues == pc = "drain" /\ pipeline # <<>> /\ consumed' # consumed

\* The turn leaves the bindings and the window alone, calls nothing on the
\* window and stays in the loop, with the rest of the queue.
TurnWithoutEffect ==
    /\ mediaPlayer' = mediaPlayer
    /\ mediaTransport' = mediaTransport
    /\ bt' = bt
    /\ tickCalls' = tickCalls
    /\ pc' = "drain"
    /\ pipeline' = Tail(pipeline)

\* C16: the turn of the loop that dequeues a notification of MediaControl1,
\* or of an interface that is none of MediaPlayer1, MediaTransport1, Device1
\* and MediaControl1, leaves both bindings and the whole window (play/pause
\* images, track markup, visibility) as they were, calls nothing on the
\* window, and stays in the loop; and the loop is left only on an empty
\* queue, so what is queued behind it is handled in the same tick.
C16_UnhandledTagsAreSkipped ==
    /\ [][ ( /\ Dequeues
             /\ Head(pipeline).iface \notin
                   { MEDIA_PLAYER_IFACE, MEDIA_TRANSPORT_IFACE,
                     MEDIA_DEVICE_IFACE } )
           => TurnWithoutEffect ]_vars
    /\ [][ (pc = "drain" /\ pc' = "idle") => pipeline = <<>> ]_vars

\* A drain took a MediaControl1 notification, one of another interface and
\* then Player Status "playing", which it applied.
C16_Witness ==
    /\ pc = "idle"
    /\ tickKind = "drain"
    /\ Len(tickTaken) = 3
    /\ tickTaken[1].iface = MEDIA_CONTROL_IFACE
    /\ tickTaken[2].iface = OTHER_IFACE
    /\ tickTaken[3].iface = MEDIA_PLAYER_IFACE
    /\ tickTaken[3].changed = [Status |-> "playing"]
    /\ ~tickStart.bt.pauseImg
    /\ bt.pauseImg
    /\ tickCalls = << [cb |-> "setPlayPause", arg |-> <<"True">>] >>

\* C20: the turn of the loop that dequeues a MediaTransport1 notification
\* whose State is neither "idle" nor "active", or that has no State (Volume
\* only), leaves both bindings and the window as they were and calls nothing
\* on the window; whereas the turn that dequeues a MediaPlayer1 notification
\* with a Status other than "playing" calls setPlayPause(False) and leaves
\* the play image shown.
C20_OtherTransportStatesIgnored ==
    /\ [][ ( /\ Dequeues
             /\ Head(pipeline).iface = MEDIA_TRANSPORT_IFACE
             /\ \/ "State" \notin DOMAIN Head(pipeline).changed
                \/ Head(pipeline).changed.State \notin {"idle", "active"} )
           => TurnWithoutEffect ]_vars
    /\ [][ ( /\ Dequeues
             /\ Head(pipeline).iface = MEDIA_PLAYER_IFACE
             /\ "Track" \notin DOMAIN Head(pipeline).changed
             /\ "Status" \in DOMAIN Head(pipeline).changed
             /\ Head(pipeline).changed.Status # "playing" )
           => /\ tickCalls' = Append(tickCalls, [ cb |-> "setPlayPause",
                                                  arg |-> <<"False">> ])
              /\ ~bt'.pauseImg
              /\ bt'.playImg ]_vars

\* Bound on a snapshot that was playing; a drain then took State "pending"
\* and Volume 64, and the pause image is still shown.
C20_Witness ==
    /\ pc = "idle"
    /\ tickKind = "drain"
    /\ Len(tickTaken) = 2
    /\ tickTaken[1].iface = MEDIA_TRANSPORT_IFACE
    /\ tickTaken[1].changed = [State |-> "pending"]
    /\ tickTaken[2].iface = MEDIA_TRANSPORT_IFACE
    /\ tickTaken[2].changed = [Volume |-> 64]
    /\ tickStart.bt.pauseImg
    /\ bt.pauseImg
    /\ tickCalls = <<>>
    /\ mediaPlayer # None

(***************************************************************************)
(* Calls on the window after the binding is cleared, for C17.              *)
(***************************************************************************)
\* The calls this step adds to those of the tick.
NewCalls == {tickCalls'[i] : i \in (Len(tickCalls) + 1)..Len(tickCalls')}

\* C17 as stated: a turn of the loop taken when mediaPlayer is None (a
\* Connected=false earlier in this drain has cleared it) calls neither
\* setPlayPause nor setTrack nor show.
C17_NoCallbackWhileUnbound ==
    [][ (pc = "drain" /\ mediaPlayer = None /\ consumed' # consumed) =>
          \A c \in NewCalls : c.cb \notin {"setPlayPause", "setTrack", "show"}
      ]_vars

(***************************************************************************)
(* The two references together, for C18.                                   *)
(***************************************************************************)
\* C18: in every state in which a command or a tick can start, mediaPlayer
\* is None exactly when mediaTransport is None; so volUp and volDown run
\* with a player bound do not find mediaTransport None.
C18_PlayerIffTransport ==
    /\ [](TickOver => ((mediaPlayer = None) <=> (mediaTransport = None)))
    /\ [][ ((volUp \/ volDown) /\ mediaPlayer # None) =>
              Raises(mediaTransport) # "AttributeError" ]_vars

\* Bound a second time, after a disconnect, and two volume commands have
\* reached the transport.
C18_Witness ==
    /\ sinceHide.seen
    /\ tickKind = "bind"
    /\ mediaPlayer # None
    /\ mediaTransport # None
    /\ cmdCount = 2
    /\ lastCall = "Set"
    /\ fault = "none"

====
